---- MODULE Spec2Model ----
(***************************************************************************)
(* Lumo AI toy: the Streamlit playground (streamlit_app.py) driving the    *)
(* LangGraph agent (ai_toy_agent.py).                                      *)
(*                                                                         *)
(* One browser session owns one st.session_state: conversation_id,         *)
(* current_system_prompt, agent (a LumoAgent with its own MemorySaver) and *)
(* messages (the displayed transcript).  Every user interaction is one     *)
(* run of the script from top to bottom; each action below is one such     *)
(* run.  The hosted model and the graph runtime are the environment: each  *)
(* call either returns a message or raises.                                *)
(***************************************************************************)
EXTENDS Naturals, Sequences, FiniteSets

VARIABLES
    phase,                  \* per session: "absent", "halted" (st.stop), "live"
    conversation_id,        \* st.session_state.conversation_id
    current_system_prompt,  \* st.session_state.current_system_prompt
    agent,                  \* st.session_state.agent (a LumoAgent)
    messages,               \* st.session_state.messages (displayed transcript)
    uuids,                  \* number of uuid.uuid4() calls made by the process
    issued,                 \* ids returned by uuid.uuid4() so far
    applied,                \* per session: text of the last applied persona
    clean,                  \* per session: every turn of the current
                            \* conversation came back from the graph as an AIMessage
    last                    \* per session: record of its latest script run

vars == <<phase, conversation_id, current_system_prompt, agent, messages,
          uuids, issued, applied, clean, last>>

----------------------------------------------------------------------------
(* Bounds *)

\* uuid.uuid4() calls (session starts plus resets) in one process lifetime
MaxIds == 2
\* chat inputs on display over all sessions
MaxTurns == 1

Sessions == {"s1", "s2"}
ConvIds == 1..MaxIds
NoId == 0

----------------------------------------------------------------------------
(* Texts *)

DEFAULT_AI_TOY_SYSTEM_PROMPT == "You are Lumo, a friendly, playful, and curious AI companion!"
Personas == {DEFAULT_AI_TOY_SYSTEM_PROMPT, "You are a grumpy pirate."}
UserTexts == {"", "Hi"}
Replies == {"Hi there, friend!"}
GREETING_TRIGGER == "Hello!"

SETUP_TROUBLE == "Oops! I'm having a little trouble thinking right now. Please check my setup."
THINKING_CAP == "Oh dear, my thinking cap seems to be on backwards! Could you try that again?"
NOT_AVAILABLE == "Oops! Lumo is not available right now. Please check the setup."
QUIET == "Lumo seems to be quiet right now."
WOBBLY == "Oh dear, something went a bit wobbly with Lumo!"

----------------------------------------------------------------------------
(* langchain_core.messages *)

SystemMessage(content) == [type |-> "system", content |-> content]
HumanMessage(content) == [type |-> "human", content |-> content]
AIMessage(content) == [type |-> "ai", content |-> content]
\* any BaseMessage that is not an AIMessage (a generic role-tagged ChatMessage)
ChatMessage(content) == [type |-> "chat", content |-> content]
NoMessage == [type |-> "none", content |-> ""]

\* a messages channel without its reducer: the update replaces the state
add_messages_overwrites(left, right) == right

\* MessagesState reducer: new messages carry fresh ids, so they are appended
add_messages(left, right) == left \o right

----------------------------------------------------------------------------
(* Environment: what one graph invocation meets.                            *)
(*   reply              self.llm.invoke returns a message: an AIMessage, or *)
(*                      a message of another, non-system type (the case    *)
(*                      invoke_agent's isinstance test is there for)       *)
(*   llm_raises         self.llm.invoke raises (network, provider, parsing)*)
(*   graph_raises_early self.ai_toy_app.invoke raises before the input is  *)
(*                      checkpointed                                       *)
(*   graph_raises_late  it raises after the input is checkpointed and      *)
(*                      before the node has run                            *)

Env ==
    {[kind |-> "reply", msg |-> m] :
        m \in {AIMessage(r) : r \in Replies} \cup {ChatMessage(r) : r \in Replies}}
    \cup {[kind |-> k, msg |-> NoMessage] :
        k \in {"llm_raises", "graph_raises_early", "graph_raises_late"}}

----------------------------------------------------------------------------
(* ai_toy_agent.py *)

\* uuid4 handing out an id it has handed out before
uuid4_repeats(n) == 1

\* uuid.uuid4(): a token no earlier call returned; n counts the earlier calls
uuid4(n) == n + 1

\* __init__ ignoring initial_system_prompt
LumoAgent_default_prompt(initial_system_prompt, init_ok) ==
    [system_prompt |-> DEFAULT_AI_TOY_SYSTEM_PROMPT,
     llm |-> init_ok,
     memory |-> [c \in ConvIds |-> <<>>]]

\* LumoAgent.__init__: init_ok is whether _initialize_llm got a working handle
\* (credential present, test call answered); a fresh MemorySaver holds nothing
LumoAgent(initial_system_prompt, init_ok) ==
    [system_prompt |-> initial_system_prompt,
     llm |-> init_ok,
     memory |-> [c \in ConvIds |-> <<>>]]

NoAgent == LumoAgent("", FALSE)

\* _call_toy_llm returning no message when the gateway call raises
call_toy_llm_drops_apology(ag, state_messages, env) ==
    IF ~ag.llm
    THEN [update |-> <<AIMessage(SETUP_TROUBLE)>>, sent |-> <<>>]
    ELSE LET current_messages_with_system_prompt ==
                 <<SystemMessage(ag.system_prompt)>> \o state_messages
         IN  IF env.kind = "llm_raises"
             THEN [update |-> <<>>, sent |-> current_messages_with_system_prompt]
             ELSE [update |-> <<env.msg>>,
                   sent |-> current_messages_with_system_prompt]

\* _call_toy_llm returning the persona message along with the reply
call_toy_llm_stores_prompt(ag, state_messages, env) ==
    IF ~ag.llm
    THEN [update |-> <<AIMessage(SETUP_TROUBLE)>>, sent |-> <<>>]
    ELSE LET current_messages_with_system_prompt ==
                 <<SystemMessage(ag.system_prompt)>> \o state_messages
         IN  IF env.kind = "llm_raises"
             THEN [update |-> <<AIMessage(THINKING_CAP)>>,
                   sent |-> current_messages_with_system_prompt]
             ELSE [update |-> <<SystemMessage(ag.system_prompt), env.msg>>,
                   sent |-> current_messages_with_system_prompt]

\* LumoAgent._call_toy_llm: the graph's only node.  update is the node's
\* return value, sent the list handed to self.llm.invoke (<<>> if not called)
call_toy_llm(ag, state_messages, env) ==
    IF ~ag.llm
    THEN [update |-> <<AIMessage(SETUP_TROUBLE)>>, sent |-> <<>>]
    ELSE LET current_messages_with_system_prompt ==
                 <<SystemMessage(ag.system_prompt)>> \o state_messages
         IN  IF env.kind = "llm_raises"
             THEN [update |-> <<AIMessage(THINKING_CAP)>>,
                   sent |-> current_messages_with_system_prompt]
             ELSE [update |-> <<env.msg>>,
                   sent |-> current_messages_with_system_prompt]

\* self.ai_toy_app.invoke(input, config): the compiled graph with its
\* checkpointer.  The thread's checkpoint plus the input is the node's state;
\* the node's update is appended and the result is checkpointed.  The runtime
\* itself may raise, before or after it has checkpointed the input.
ai_toy_app_invoke(ag, input, thread_id, env) ==
    LET checkpoint == ag.memory[thread_id]
        state == add_messages(checkpoint, input)
    IN  IF env.kind = "graph_raises_early"
        THEN [raised |-> TRUE, messages |-> <<>>, memory |-> ag.memory, sent |-> <<>>]
        ELSE IF env.kind = "graph_raises_late"
        THEN [raised |-> TRUE, messages |-> <<>>,
              memory |-> [ag.memory EXCEPT ![thread_id] = state], sent |-> <<>>]
        ELSE LET out == call_toy_llm(ag, state, env)
                 final == add_messages(state, out.update)
             IN  [raised |-> FALSE, messages |-> final,
                  memory |-> [ag.memory EXCEPT ![thread_id] = final],
                  sent |-> out.sent]

\* invoke_agent reading messages[0] instead of messages[-1]
invoke_agent_first_message(ag, user_input, conv_id, env) ==
    IF ~ag.llm
    THEN [ret |-> NOT_AVAILABLE, memory |-> ag.memory, sent |-> <<>>,
          outcome |-> "unavailable", reply |-> NoMessage]
    ELSE LET response_state ==
                 ai_toy_app_invoke(ag, <<HumanMessage(user_input)>>, conv_id, env)
             n == Len(response_state.messages)
         IN  [ret |-> IF response_state.raised
                      THEN WOBBLY
                      ELSE IF n > 0 /\ response_state.messages[n].type = "ai"
                      THEN response_state.messages[1].content
                      ELSE QUIET,
              memory |-> response_state.memory,
              sent |-> response_state.sent,
              outcome |-> env.kind,
              reply |-> env.msg]

\* invoke_agent with the same text in its except branch as after its if
invoke_agent_one_apology(ag, user_input, conv_id, env) ==
    IF ~ag.llm
    THEN [ret |-> NOT_AVAILABLE, memory |-> ag.memory, sent |-> <<>>,
          outcome |-> "unavailable", reply |-> NoMessage]
    ELSE LET response_state ==
                 ai_toy_app_invoke(ag, <<HumanMessage(user_input)>>, conv_id, env)
             n == Len(response_state.messages)
         IN  [ret |-> IF response_state.raised
                      THEN QUIET
                      ELSE IF n > 0 /\ response_state.messages[n].type = "ai"
                      THEN response_state.messages[n].content
                      ELSE QUIET,
              memory |-> response_state.memory,
              sent |-> response_state.sent,
              outcome |-> env.kind,
              reply |-> env.msg]

\* LumoAgent.invoke_agent: ret is the text returned to the caller, memory the
\* agent's MemorySaver afterwards, outcome what the call met
invoke_agent(ag, user_input, conv_id, env) ==
    IF ~ag.llm
    THEN [ret |-> NOT_AVAILABLE, memory |-> ag.memory, sent |-> <<>>,
          outcome |-> "unavailable", reply |-> NoMessage]
    ELSE LET response_state ==
                 ai_toy_app_invoke(ag, <<HumanMessage(user_input)>>, conv_id, env)
             n == Len(response_state.messages)
         IN  [ret |-> IF response_state.raised
                      THEN WOBBLY
                      ELSE IF n > 0 /\ response_state.messages[n].type = "ai"
                      THEN response_state.messages[n].content
                      ELSE QUIET,
              memory |-> response_state.memory,
              sent |-> response_state.sent,
              outcome |-> env.kind,
              reply |-> env.msg]

\* update_system_prompt without its assignment
update_system_prompt_ignored(ag, new_system_prompt) == ag

\* LumoAgent.update_system_prompt
update_system_prompt(ag, new_system_prompt) ==
    [ag EXCEPT !.system_prompt = new_system_prompt]

----------------------------------------------------------------------------
(* streamlit_app.py *)

\* an entry of st.session_state.messages
Shown(role, content) == [role |-> role, content |-> content]

\* the chat handler without line 65
after_chat_no_echo(shown, prompt, ai_response_content) ==
    Append(shown, Shown("assistant", ai_response_content))

\* the transcript after a chat input: the user's text (line 65), then the
\* text invoke_agent returned (line 80)
after_chat(shown, prompt, ai_response_content) ==
    Append(Append(shown, Shown("user", prompt)),
           Shown("assistant", ai_response_content))

\* chat inputs shown in a transcript
UserTurns(shown) == Cardinality({i \in DOMAIN shown : shown[i].role = "user"})

RECURSIVE SumTurns(_, _)
SumTurns(shown, ss) ==
    IF ss = {} THEN 0
    ELSE LET s == CHOOSE x \in ss : TRUE
         IN  UserTurns(shown[s]) + SumTurns(shown, ss \ {s})

\* chat inputs shown over all sessions
TotalTurns(shown) == SumTurns(shown, Sessions)

\* the record of a script run; submitted says invoke_agent was called, with
\* conv and text its arguments, before the thread's history when it was called
Ran(op, submitted, conv, text, before, r) ==
    [op |-> op, submitted |-> submitted, conv |-> conv,
     text |-> text, before |-> before, outcome |-> r.outcome, reply |-> r.reply,
     ret |-> r.ret, sent |-> r.sent]

NoCall == [outcome |-> "none", reply |-> NoMessage, ret |-> "", sent |-> <<>>]

\* a turn whose graph run came back with an AIMessage as its last message
CleanOutcome(r) ==
    \/ r.outcome = "llm_raises"
    \/ r.outcome = "reply" /\ r.reply.type = "ai"

Init ==
    /\ phase = [s \in Sessions |-> "absent"]
    /\ conversation_id = [s \in Sessions |-> NoId]
    /\ current_system_prompt = [s \in Sessions |-> ""]
    /\ agent = [s \in Sessions |-> NoAgent]
    /\ messages = [s \in Sessions |-> <<>>]
    /\ uuids = 0
    /\ issued = {}
    /\ applied = [s \in Sessions |-> DEFAULT_AI_TOY_SYSTEM_PROMPT]
    /\ clean = [s \in Sessions |-> TRUE]
    /\ last = [s \in Sessions |-> Ran("none", FALSE, NoId, "", <<>>, NoCall)]

\* First script run of a session (lines 9-31): new id, default persona, new
\* agent; st.stop() if the model handle is missing, else the greeting turn
SessionStart(s) ==
    /\ phase[s] = "absent"
    /\ uuids < MaxIds
    /\ \E init_ok \in BOOLEAN, env \in Env :
          LET id == uuid4(uuids)
              ag == LumoAgent(DEFAULT_AI_TOY_SYSTEM_PROMPT, init_ok)
              r == invoke_agent(ag, GREETING_TRIGGER, id, env)
          IN  /\ conversation_id' = [conversation_id EXCEPT ![s] = id]
              /\ uuids' = uuids + 1
              /\ issued' = issued \cup {id}
              /\ current_system_prompt' =
                     [current_system_prompt EXCEPT ![s] = DEFAULT_AI_TOY_SYSTEM_PROMPT]
              /\ IF ~ag.llm
                 THEN /\ agent' = [agent EXCEPT ![s] = ag]
                      /\ phase' = [phase EXCEPT ![s] = "halted"]
                      /\ messages' = messages
                      /\ clean' = clean
                      /\ last' = [last EXCEPT ![s] = Ran("start", FALSE, id, "", <<>>, NoCall)]
                 ELSE /\ agent' = [agent EXCEPT ![s] = [ag EXCEPT !.memory = r.memory]]
                      /\ phase' = [phase EXCEPT ![s] = "live"]
                      /\ messages' = [messages EXCEPT ![s] = <<Shown("assistant", r.ret)>>]
                      /\ clean' = [clean EXCEPT ![s] = CleanOutcome(r)]
                      /\ last' = [last EXCEPT ![s] = Ran("start", TRUE, id, GREETING_TRIGGER,
                                     ag.memory[id], r)]
    /\ UNCHANGED applied

\* A rerun of the script in a session whose first run stopped at st.stop():
\* conversation_id, current_system_prompt and agent are already in
\* st.session_state, so lines 9-20 are skipped; messages is created empty and,
\* the agent having no llm, no greeting is asked for; the page is rendered
Rerun(s) ==
    /\ phase[s] = "halted"
    /\ phase' = [phase EXCEPT ![s] = "live"]
    /\ messages' = [messages EXCEPT ![s] = <<>>]
    /\ last' = [last EXCEPT ![s] = Ran("rerun", FALSE, conversation_id[s], "", <<>>, NoCall)]
    /\ UNCHANGED <<conversation_id, current_system_prompt, agent, uuids, issued,
                   applied, clean>>

\* Chat input (lines 63-80)
ChatInput(s, prompt) ==
    /\ phase[s] = "live"
    /\ TotalTurns(messages) < MaxTurns
    /\ \E env \in Env :
          LET r == invoke_agent(agent[s], prompt, conversation_id[s], env)
          IN  /\ messages' = [messages EXCEPT ![s] = after_chat(@, prompt, r.ret)]
              /\ agent' = [agent EXCEPT ![s].memory = r.memory]
              /\ clean' = [clean EXCEPT ![s] = @ /\ (agent[s].llm => CleanOutcome(r))]
              /\ last' = [last EXCEPT ![s] = Ran("chat", TRUE, conversation_id[s], prompt,
                             agent[s].memory[conversation_id[s]], r)]
    /\ UNCHANGED <<phase, conversation_id, current_system_prompt, uuids, issued, applied>>

\* "Apply New System Prompt" button (lines 45-48)
ApplyPrompt(s, edited_prompt) ==
    /\ phase[s] = "live"
    /\ current_system_prompt' = [current_system_prompt EXCEPT ![s] = edited_prompt]
    /\ agent' = [agent EXCEPT ![s] = update_system_prompt(@, edited_prompt)]
    /\ applied' = [applied EXCEPT ![s] = edited_prompt]
    /\ last' = [last EXCEPT ![s] = Ran("apply", FALSE, conversation_id[s], edited_prompt, <<>>, NoCall)]
    /\ UNCHANGED <<phase, conversation_id, messages, uuids, issued, clean>>

\* "Clear Chat & Reset Lumo" button (lines 85-101)
Reset(s) ==
    /\ phase[s] = "live"
    /\ uuids < MaxIds
    /\ \E init_ok \in BOOLEAN, env \in Env :
          LET id == uuid4(uuids)
              ag == LumoAgent(current_system_prompt[s], init_ok)
              r == invoke_agent(ag, GREETING_TRIGGER, id, env)
          IN  /\ conversation_id' = [conversation_id EXCEPT ![s] = id]
              /\ uuids' = uuids + 1
              /\ issued' = issued \cup {id}
              /\ IF ~ag.llm
                 THEN /\ agent' = [agent EXCEPT ![s] = ag]
                      /\ messages' = [messages EXCEPT ![s] = <<>>]
                      /\ clean' = [clean EXCEPT ![s] = TRUE]
                      /\ last' = [last EXCEPT ![s] = Ran("reset", FALSE, id, "", <<>>, NoCall)]
                 ELSE /\ agent' = [agent EXCEPT ![s] = [ag EXCEPT !.memory = r.memory]]
                      /\ messages' = [messages EXCEPT ![s] = <<Shown("assistant", r.ret)>>]
                      /\ clean' = [clean EXCEPT ![s] = CleanOutcome(r)]
                      /\ last' = [last EXCEPT ![s] = Ran("reset", TRUE, id, GREETING_TRIGGER,
                                     ag.memory[id], r)]
    /\ UNCHANGED <<phase, current_system_prompt, applied>>

Next ==
    \E s \in Sessions :
        \/ SessionStart(s)
        \/ Rerun(s)
        \/ \E prompt \in UserTexts : ChatInput(s, prompt)
        \/ \E edited_prompt \in Personas : ApplyPrompt(s, edited_prompt)
        \/ Reset(s)

Spec == Init /\ [][Next]_vars

----------------------------------------------------------------------------
(* Properties *)

\* the stored history of session s's current conversation
History(s) == agent[s].memory[conversation_id[s]]

Started(s) == phase[s] # "absent"

\* the latest run of s called invoke_agent on a working agent
Submitted(s) == last[s].submitted /\ last[s].outcome # "unavailable"

GatewayReplied(s) ==
    Submitted(s) /\ last[s].outcome = "reply" /\ last[s].reply.type = "ai"

GatewayRaised(s) == Submitted(s) /\ last[s].outcome = "llm_raises"

IsPrefix(a, b) == Len(a) <= Len(b) /\ SubSeq(b, 1, Len(a)) = a

\* C1 as claimed: after a submit whose gateway call raises, the history is the
\* previous history followed by User(t) alone, and the fixed apology is returned.
C1_AsClaimed ==
    \A s \in Sessions :
        GatewayRaised(s) =>
            /\ History(s) = Append(last[s].before, HumanMessage(last[s].text))
            /\ last[s].ret = THINKING_CAP

\* C1 amended: after a submit whose gateway call raises, the history is the
\* previous history followed by exactly User(t) and Assistant(apology), the
\* apology being the fixed text that submit also returns.
C1_FailingSubmitStoresApology ==
    \A s \in Sessions :
        GatewayRaised(s) =>
            /\ History(s) = last[s].before
                   \o <<HumanMessage(last[s].text), AIMessage(THINKING_CAP)>>
            /\ last[s].ret = THINKING_CAP

C1_Witness ==
    \E s \in Sessions :
        /\ GatewayRaised(s)
        /\ last[s].op = "chat"
        /\ last[s].text = ""
        /\ Len(last[s].before) >= 2

\* C2: after a successful submit(c, t) the history of c is the previous history
\* followed by User(t), Assistant(reply), reply being the gateway's message, and
\* submit returns the reply's text.
C2_SuccessfulSubmit ==
    \A s \in Sessions :
        GatewayReplied(s) =>
            /\ History(s) = last[s].before
                   \o <<HumanMessage(last[s].text), last[s].reply>>
            /\ last[s].ret = last[s].reply.content

C2_Witness ==
    \E s \in Sessions :
        /\ GatewayReplied(s)
        /\ last[s].op = "chat"
        /\ Len(last[s].before) >= 2

\* C3: the list handed to the gateway by a submit is System(p), then the history
\* of c as it was before the call, then User(t), with p the persona last set;
\* the gateway is handed a list whenever the graph reaches its node.
C3_OutboundList ==
    \A s \in Sessions :
        Submitted(s) =>
            /\ last[s].outcome \in {"reply", "llm_raises"} => last[s].sent # <<>>
            /\ last[s].sent # <<>> =>
                   last[s].sent = <<SystemMessage(applied[s])>> \o last[s].before
                                      \o <<HumanMessage(last[s].text)>>

C3_Witness ==
    \E s \in Sessions :
        /\ Submitted(s)
        /\ last[s].op = "chat"
        /\ last[s].sent # <<>>
        /\ applied[s] # DEFAULT_AI_TOY_SYSTEM_PROMPT
        /\ Len(last[s].before) >= 2

\* C4: no stored history of any conversation id holds a System-tagged entry.
C4_NoSystemInHistory ==
    \A s \in Sessions : \A c \in ConvIds :
        \A i \in DOMAIN agent[s].memory[c] : agent[s].memory[c][i].type # "system"

C4_Witness ==
    \E s \in Sessions :
        /\ Started(s)
        /\ Len(History(s)) >= 4
        /\ last[s].sent # <<>>
        /\ last[s].sent[1] = SystemMessage("You are a grumpy pirate.")

\* C5 as claimed: every uuid4 id differs from all earlier ones; a new
\* conversation's history is empty before the greeting turn and, once that turn
\* has completed, is exactly User(greeting trigger), Assistant(the model's
\* opening line).
C5_AsClaimed ==
    /\ Cardinality(issued) = uuids
    /\ \A s \in Sessions :
           (last[s].op \in {"start", "reset"} /\ Submitted(s)) =>
               /\ last[s].before = <<>>
               /\ last[s].reply.type = "ai"
               /\ History(s) = <<HumanMessage(GREETING_TRIGGER), last[s].reply>>

\* C5 amended: every uuid4 id differs from all earlier ones; a new
\* conversation's history is empty before the greeting turn; once that turn has
\* completed with a reply from the model, the history is exactly User(greeting
\* trigger), Assistant(the model's opening line), and if the gateway call raised
\* instead, it is User(greeting trigger), Assistant(the fixed apology).
C5_FreshConversation ==
    /\ Cardinality(issued) = uuids
    /\ \A s \in Sessions :
           (last[s].op \in {"start", "reset"} /\ Submitted(s)) =>
               /\ last[s].before = <<>>
               /\ GatewayReplied(s) =>
                      History(s) = <<HumanMessage(GREETING_TRIGGER), last[s].reply>>
               /\ GatewayRaised(s) =>
                      History(s) = <<HumanMessage(GREETING_TRIGGER),
                                     AIMessage(THINKING_CAP)>>

C5_Witness ==
    \E s \in Sessions :
        /\ last[s].op = "reset"
        /\ GatewayReplied(s)
        /\ uuids = 2
        /\ conversation_id[s] = 2

\* the kind of failure a submit met ("ok" if it met none)
Kind(r) ==
    IF r.outcome = "reply"
    THEN (IF r.reply.type = "ai" THEN "ok" ELSE "non_assistant")
    ELSE IF r.outcome \in {"graph_raises_early", "graph_raises_late"}
    THEN "graph_raises"
    ELSE r.outcome

Failing(s) == Submitted(s) /\ Kind(last[s]) # "ok"

\* C6 as claimed: whatever the kind of failure, a failing submit returns one
\* and the same text: no two failing submits return different texts.
C6_AsClaimed ==
    \A s, t \in Sessions :
        (Failing(s) /\ Failing(t)) => last[s].ret = last[t].ret

\* C6 amended: the text a failing submit returns is fixed by the kind of the
\* failure: one text when the gateway call raises, another when the graph's last
\* message is not an assistant message, another when the graph run raises, and
\* another when the agent has no model handle; two failing submits of the same
\* kind return the same text.
C6_ApologyPerKind ==
    /\ \A s \in Sessions :
           /\ GatewayRaised(s) => last[s].ret = THINKING_CAP
           /\ (Submitted(s) /\ Kind(last[s]) = "non_assistant") => last[s].ret = QUIET
           /\ (Submitted(s) /\ Kind(last[s]) = "graph_raises") => last[s].ret = WOBBLY
           /\ (last[s].submitted /\ last[s].outcome = "unavailable") =>
                  last[s].ret = NOT_AVAILABLE
    /\ \A s, t \in Sessions :
           (Failing(s) /\ Failing(t) /\ Kind(last[s]) = Kind(last[t])) =>
               last[s].ret = last[t].ret

C6_Witness ==
    \E s, t \in Sessions :
        /\ s # t
        /\ Failing(s) /\ Failing(t)
        /\ Kind(last[s]) = "graph_raises"
        /\ Kind(last[t]) = "graph_raises"
        /\ last[s].text # last[t].text

\* C7 as claimed: once the agent of a session has no model handle the session
\* is halted and no turn is attempted: no submit is accepted, the gateway is not
\* invoked, and nothing is added to the displayed or the stored conversation.
C7_AsClaimed ==
    \A s \in Sessions :
        (Started(s) /\ ~agent[s].llm) =>
            /\ phase[s] = "halted"
            /\ ~last[s].submitted
            /\ last[s].sent = <<>>
            /\ messages[s] = <<>>
            /\ \A c \in ConvIds : agent[s].memory[c] = <<>>

\* C8: a reset leaves the persona alone: the agent's persona is always the one
\* last applied (the default if none was), and so is the System entry of the
\* greeting turn of a reset and of every later submit.
C8_ResetKeepsPersona ==
    \A s \in Sessions :
        Started(s) =>
            /\ agent[s].system_prompt = applied[s]
            /\ current_system_prompt[s] = applied[s]
            /\ (last[s].op \in {"reset", "chat"} /\ last[s].sent # <<>>) =>
                   last[s].sent[1].content = applied[s]

C8_Witness ==
    \E s \in Sessions :
        /\ last[s].op = "reset"
        /\ last[s].sent # <<>>
        /\ applied[s] # DEFAULT_AI_TOY_SYSTEM_PROMPT

\* C9: while a session keeps its conversation id, the history of that id only
\* grows at its end, and it changes only in a step that is a submit on that id:
\* a persona set, and any step of another session, leave it unchanged.
C9_AppendOnly ==
    [][\A s \in Sessions :
          (Started(s) /\ conversation_id'[s] = conversation_id[s]) =>
              LET c == conversation_id[s]
              IN  /\ IsPrefix(agent[s].memory[c], agent'[s].memory[c])
                  /\ agent'[s].memory[c] # agent[s].memory[c] =>
                         /\ last'[s] # last[s]
                         /\ last'[s].op = "chat"
                         /\ last'[s].conv = c
                  /\ \A d \in ConvIds \ {c} : agent'[s].memory[d] = agent[s].memory[d]
      ]_vars

C9_Witness ==
    \E s, t \in Sessions :
        /\ s # t
        /\ last[s].op = "apply"
        /\ Len(History(s)) >= 2
        /\ last[t].op = "chat"
        /\ Len(History(t)) > Len(last[t].before)

\* how a stored message is displayed
RoleOf(type) ==
    IF type = "human" THEN "user" ELSE IF type = "ai" THEN "assistant" ELSE type

AsShown(history) ==
    [i \in 1..Len(history) |-> Shown(RoleOf(history[i].type), history[i].content)]

\* the history without its first entry
Rest(history) == SubSeq(history, 2, Len(history))

====
